---- MODULE Spec2Model ----
(***************************************************************************)
(* A model of the Tetris engine of src/src/main.rs: the Tetromino, the     *)
(* board, TetrisGame's commands (update, move_piece, rotate_piece,         *)
(* hard_drop) and the order in which TetrisApp::update dispatches them.    *)
(*                                                                         *)
(* Vectors are modelled as sequences, so the code's index i is i + 1 here: *)
(* the code's board[y][x] is board[y + 1][x + 1], the code's row 0 is      *)
(* board[1].  Row(b, y) and Cell(b, x, y) take the code's indices.         *)
(***************************************************************************)
EXTENDS Integers, Sequences, FiniteSets

\* ----------------------------------------------------------- constants
BOARD_WIDTH == 10

BOARD_HEIGHT == 20

\* score added per cleared line (clear_lines)
LINE_SCORE == 100

Empty == "Empty"

Filled == "Filled"

BlockType == {Empty, Filled}

\* TICK_DURATION, in milliseconds
TICK_DURATION == 500

\* number of pieces that may be merged after the opening before the model
\* stops issuing commands
MaxPieces == 1

\* ------------------------------------------------------------ Tetromino
\* the literal masks of Tetromino::new, in the order of the vec!: I O T L J S Z
Shapes ==
  << << <<TRUE, TRUE, TRUE, TRUE>>, <<FALSE, FALSE, FALSE, FALSE>> >>,
     << <<TRUE, TRUE>>, <<TRUE, TRUE>> >>,
     << <<FALSE, TRUE, FALSE>>, <<TRUE, TRUE, TRUE>> >>,
     << <<TRUE, FALSE, FALSE>>, <<TRUE, TRUE, TRUE>> >>,
     << <<FALSE, FALSE, TRUE>>, <<TRUE, TRUE, TRUE>> >>,
     << <<FALSE, TRUE, TRUE>>, <<TRUE, TRUE, FALSE>> >>,
     << <<TRUE, TRUE, FALSE>>, <<FALSE, TRUE, TRUE>> >> >>

\* what rng.gen_range(0..shapes.len()) can return, shifted by one
ShapeIds == 1..Len(Shapes)

\* a mutant of TetrominoNew: the spawn column rounded up instead of down
TetrominoNewRoundedUp(s) ==
  [blocks |-> Shapes[s],
   x |-> (BOARD_WIDTH - Len(Shapes[s][1]) + 1) \div 2,
   y |-> 0]

\* a mutant of TetrominoNew: the piece spawns at the left edge
TetrominoNewAtLeft(s) == [blocks |-> Shapes[s], x |-> 0, y |-> 0]

\* Tetromino::new with the random index s
TetrominoNew(s) ==
  [blocks |-> Shapes[s],
   x |-> (BOARD_WIDTH - Len(Shapes[s][1])) \div 2,
   y |-> 0]

\* a mutant of TetrominoRotate: the turn is counter-clockwise,
\* rotated[cols - 1 - j][i] = blocks[i][j]
TetrominoRotateCounter(p) ==
  LET rows == Len(p.blocks)
      cols == Len(p.blocks[1])
  IN [p EXCEPT !.blocks =
        [j \in 1..cols |-> [k \in 1..rows |-> p.blocks[k][cols - j + 1]]]]

\* Tetromino::rotate: rotated[j][rows - 1 - i] = blocks[i][j]
TetrominoRotate(p) ==
  LET rows == Len(p.blocks)
      cols == Len(p.blocks[1])
  IN [p EXCEPT !.blocks =
        [j \in 1..cols |-> [k \in 1..rows |-> p.blocks[rows - k + 1][j]]]]

\* whether the mask has a block at the code's blocks[i][j]; FALSE outside the mask
IsBlock(p, i, j) ==
  /\ i >= 0 /\ i < Len(p.blocks)
  /\ j >= 0 /\ j < Len(p.blocks[1])
  /\ p.blocks[i + 1][j + 1]

\* ---------------------------------------------------------------- board
Row(b, y) == b[y + 1]

Cell(b, x, y) == b[y + 1][x + 1]

EmptyRow == [c \in 1..BOARD_WIDTH |-> Empty]

EmptyBoard == [r \in 1..BOARD_HEIGHT |-> EmptyRow]

\* self.board[y].iter().all(|&block| block == BlockType::Filled)
RowFull(row) == \A c \in 1..Len(row) : row[c] = Filled

\* ----------------------------------------------------------- TetrisGame
\* TetrisGame::default with the random index s; merged counts the pieces
\* merged so far and panicked records an out-of-range board index
NewGame(s) ==
  [board |-> EmptyBoard,
   current_piece |-> TetrominoNew(s),
   game_over |-> FALSE,
   score |-> 0,
   merged |-> 0,
   panicked |-> FALSE]

\* a mutant of CanMove: the cells of the mask that are not blocks are tested too
CanMoveAllCells(g, dx, dy) ==
  LET p == g.current_piece
      new_x == p.x + dx
      new_y == p.y + dy
  IN \A i \in 0..(Len(p.blocks) - 1) : \A j \in 0..(Len(p.blocks[1]) - 1) :
       LET board_x == new_x + j
           board_y == new_y + i
       IN /\ ~(board_x < 0 \/ board_x >= BOARD_WIDTH \/ board_y >= BOARD_HEIGHT)
          /\ ~(board_y >= 0 /\ Cell(g.board, board_x, board_y) = Filled)

\* TetrisGame::can_move
CanMove(g, dx, dy) ==
  LET p == g.current_piece
      new_x == p.x + dx
      new_y == p.y + dy
  IN \A i \in 0..(Len(p.blocks) - 1) : \A j \in 0..(Len(p.blocks[1]) - 1) :
       \/ ~p.blocks[i + 1][j + 1]
       \/ LET board_x == new_x + j
              board_y == new_y + i
          IN /\ ~(board_x < 0 \/ board_x >= BOARD_WIDTH \/ board_y >= BOARD_HEIGHT)
             /\ ~(board_y >= 0 /\ Cell(g.board, board_x, board_y) = Filled)

\* TetrisGame::is_valid_position
IsValidPosition(g, piece) ==
  \A i \in 0..(Len(piece.blocks) - 1) : \A j \in 0..(Len(piece.blocks[1]) - 1) :
    \/ ~piece.blocks[i + 1][j + 1]
    \/ LET board_x == piece.x + j
           board_y == piece.y + i
       IN /\ ~(board_x < 0 \/ board_x >= BOARD_WIDTH \/ board_y >= BOARD_HEIGHT)
          /\ ~(board_y >= 0 /\ Cell(g.board, board_x, board_y) = Filled)

\* an index of merge_piece outside the board: a block with board_y >= 0 whose
\* board_y as usize >= 20 or board_x as usize >= 10 (a negative board_x wraps
\* to a huge usize)
MergeOutOfRange(g) ==
  LET p == g.current_piece
  IN \E i \in 0..(Len(p.blocks) - 1) : \E j \in 0..(Len(p.blocks[1]) - 1) :
       /\ p.blocks[i + 1][j + 1]
       /\ p.y + i >= 0
       /\ (p.x + j < 0 \/ p.x + j >= BOARD_WIDTH \/ p.y + i >= BOARD_HEIGHT)

\* a mutant of MergePiece: the test is board_y > 0, the blocks in row 0 are dropped
MergePieceAboveRow0(g) ==
  LET p == g.current_piece
  IN IF MergeOutOfRange(g)
     THEN [g EXCEPT !.panicked = TRUE]
     ELSE [g EXCEPT !.board =
             [r \in 1..BOARD_HEIGHT |->
                IF r - 1 - p.y < 0 \/ r - 1 - p.y >= Len(p.blocks) \/ r - 1 = 0
                THEN g.board[r]
                ELSE [c \in 1..BOARD_WIDTH |->
                        IF IsBlock(p, r - 1 - p.y, c - 1 - p.x)
                        THEN Filled ELSE g.board[r][c]]],
           !.merged = @ + 1]

\* TetrisGame::merge_piece: board[y + i][x + j] = Filled for every block with
\* y + i >= 0; an index out of range panics
MergePiece(g) ==
  LET p == g.current_piece
  IN IF MergeOutOfRange(g)
     THEN [g EXCEPT !.panicked = TRUE]
     ELSE [g EXCEPT !.board =
             [r \in 1..BOARD_HEIGHT |->
                IF r - 1 - p.y < 0 \/ r - 1 - p.y >= Len(p.blocks)
                THEN g.board[r]
                ELSE [c \in 1..BOARD_WIDTH |->
                        IF IsBlock(p, r - 1 - p.y, c - 1 - p.x)
                        THEN Filled ELSE g.board[r][c]]],
           !.merged = @ + 1]

\* self.board.remove(y); self.board.insert(0, vec![Empty; BOARD_WIDTH])
RemoveInsert(b, y) ==
  [r \in 1..Len(b) |-> IF r = 1 THEN EmptyRow ELSE IF r <= y + 1 THEN b[r - 1] ELSE b[r]]

\* a mutant of ClearScan: the scan moves up after a removal and so never
\* re-examines the row that came down into index y
RECURSIVE ClearScanSkip(_, _, _)
ClearScanSkip(b, y, n) ==
  IF y > 0
  THEN IF RowFull(Row(b, y))
       THEN ClearScanSkip(RemoveInsert(b, y), y - 1, n + 1)
       ELSE ClearScanSkip(b, y - 1, n)
  ELSE [board |-> b, lines_cleared |-> n]

\* a mutant of ClearScan: the scan goes on to row 0 (while y >= 0)
RECURSIVE ClearScanRow0(_, _, _)
ClearScanRow0(b, y, n) ==
  IF y >= 0
  THEN IF RowFull(Row(b, y))
       THEN ClearScanRow0(RemoveInsert(b, y), y, n + 1)
       ELSE ClearScanRow0(b, y - 1, n)
  ELSE [board |-> b, lines_cleared |-> n]

\* a mutant of ClearScan: the scan stops after the first removal
ClearScanOnce(b, y, n) ==
  LET full == {r \in 1..y : RowFull(Row(b, r))}
  IN IF full = {}
     THEN [board |-> b, lines_cleared |-> n]
     ELSE [board |-> RemoveInsert(b, CHOOSE r \in full : \A q \in full : q <= r),
           lines_cleared |-> n + 1]

\* the while loop of clear_lines from scan index y with n lines cleared so far
RECURSIVE ClearScan(_, _, _)
ClearScan(b, y, n) ==
  IF y > 0
  THEN IF RowFull(Row(b, y))
       THEN ClearScan(RemoveInsert(b, y), y, n + 1)
       ELSE ClearScan(b, y - 1, n)
  ELSE [board |-> b, lines_cleared |-> n]

\* a mutant of ClearLines: the score grows with the square of the lines cleared
ClearLinesBonus(g) ==
  LET r == ClearScan(g.board, BOARD_HEIGHT - 1, 0)
  IN [g EXCEPT !.board = r.board,
               !.score = @ + r.lines_cleared * r.lines_cleared * LINE_SCORE]

\* TetrisGame::clear_lines
ClearLines(g) ==
  LET r == ClearScan(g.board, BOARD_HEIGHT - 1, 0)
  IN [g EXCEPT !.board = r.board, !.score = @ + r.lines_cleared * LINE_SCORE]

\* a mutant of Spawn: the spawn is tested one row down, can_move(0, 1)
SpawnTestedBelow(g, s) ==
  LET n == [g EXCEPT !.current_piece = TetrominoNew(s)]
  IN IF ~CanMove(n, 0, 1) THEN [n EXCEPT !.game_over = TRUE] ELSE n

\* a mutant of Spawn: game_over is never set
SpawnUnflagged(g, s) == [g EXCEPT !.current_piece = TetrominoNew(s)]

\* lines 118-121 of update: the spawn, with s the random index drawn
Spawn(g, s) ==
  LET n == [g EXCEPT !.current_piece = TetrominoNew(s)]
  IN IF ~CanMove(n, 0, 0) THEN [n EXCEPT !.game_over = TRUE] ELSE n

\* a mutant of Update: the test of can_move(0, 1) inverted
UpdateInverted(g) ==
  IF g.game_over \/ g.panicked
  THEN {g}
  ELSE IF CanMove(g, 0, 1)
       THEN LET m == MergePiece(g)
                c == ClearLines(m)
            IN IF m.panicked THEN {m} ELSE {Spawn(c, s) : s \in ShapeIds}
       ELSE {[g EXCEPT !.current_piece.y = @ + 1]}

\* a mutant of Update: a piece that can move down moves two rows
UpdateTwoRows(g) ==
  IF g.game_over \/ g.panicked
  THEN {g}
  ELSE IF ~CanMove(g, 0, 1)
       THEN LET m == MergePiece(g)
                c == ClearLines(m)
            IN IF m.panicked THEN {m} ELSE {Spawn(c, s) : s \in ShapeIds}
       ELSE {[g EXCEPT !.current_piece.y = @ + 2]}

\* the element of a one-element set
Only(S) == CHOOSE x \in S : TRUE

\* TetrisGame::update: the set of its outcomes, one per random index the
\* spawn can draw (one outcome when it does not spawn).  m is the game after
\* merge_piece and c the game after clear_lines; each is bound as the element
\* of a one-element set, so that it is computed once.
Update(g) ==
  IF g.game_over \/ g.panicked
  THEN {g}
  ELSE IF ~CanMove(g, 0, 1)
       THEN Only({IF m.panicked
                  THEN {m}
                  ELSE Only({{Spawn(c, s) : s \in ShapeIds} : c \in {ClearLines(m)}}) :
                    m \in {MergePiece(g)}})
       ELSE {[g EXCEPT !.current_piece.y = @ + 1]}

\* a mutant of MovePiece: the move is applied without asking can_move
MovePieceUnchecked(g, dx) == [g EXCEPT !.current_piece.x = @ + dx]

\* a mutant of MovePiece: can_move is asked about the opposite direction
MovePieceTestsOpposite(g, dx) ==
  IF CanMove(g, -dx, 0) THEN [g EXCEPT !.current_piece.x = @ + dx] ELSE g

\* TetrisGame::move_piece
MovePiece(g, dx) ==
  IF CanMove(g, dx, 0) THEN [g EXCEPT !.current_piece.x = @ + dx] ELSE g

\* the offsets rotate_piece tries, in the order of `for test_x in -1..=1`
RotateOffsets == <<-1, 0, 1>>

\* a mutant of RotateSearch: the candidate is installed without the validity test
RotateSearchUnchecked(g, rotated, k) ==
  [rotated EXCEPT !.x = g.current_piece.x + RotateOffsets[k]]

\* the loop of rotate_piece from the k-th offset on: the first valid candidate,
\* or the current piece when none is valid
RECURSIVE RotateSearch(_, _, _)
RotateSearch(g, rotated, k) ==
  IF k > Len(RotateOffsets)
  THEN g.current_piece
  ELSE LET cand == [rotated EXCEPT !.x = g.current_piece.x + RotateOffsets[k]]
       IN IF IsValidPosition(g, cand) THEN cand ELSE RotateSearch(g, rotated, k + 1)

\* TetrisGame::rotate_piece
RotatePiece(g) ==
  [g EXCEPT !.current_piece = RotateSearch(g, TetrominoRotate(g.current_piece), 1)]

\* a mutant of DropLoop: an if instead of the while, one row at most
DropLoopOnce(g) ==
  IF CanMove(g, 0, 1) THEN [g EXCEPT !.current_piece.y = @ + 1] ELSE g

\* the while loop of hard_drop
RECURSIVE DropLoop(_)
DropLoop(g) ==
  IF CanMove(g, 0, 1) THEN DropLoop([g EXCEPT !.current_piece.y = @ + 1]) ELSE g

\* TetrisGame::hard_drop: the set of its outcomes
HardDrop(g) == Update(DropLoop(g))

\* ---------------------------------------------------------------- state
\* board, current_piece, game_over, score and last_update are the fields of
\* TetrisGame and now is the clock Instant::now() reads, both in milliseconds
\* since the program started; merged counts the pieces merged, panicked records
\* an index out of range, last is the command last run (in SpecFrame, the
\* commands the last frame ran, in order) and budget what the model may still
\* do (pieces to merge; in SpecFrame, frames to run).
VARIABLES board, current_piece, game_over, score, merged, panicked, last, budget,
          now, last_update

vars ==
  <<board, current_piece, game_over, score, merged, panicked, last, budget,
    now, last_update>>

\* the TetrisGame the variables hold
Game ==
  [board |-> board, current_piece |-> current_piece, game_over |-> game_over,
   score |-> score, merged |-> merged, panicked |-> panicked]

\* the TetrisGame after the step
GameNext ==
  [board |-> board', current_piece |-> current_piece', game_over |-> game_over',
   score |-> score', merged |-> merged', panicked |-> panicked']

\* the step that runs command cmd and leaves the game as g; the clock stands
\* still in the specifications that use it, so last_update, were it written,
\* would keep its value
Becomes(g, cmd) ==
  /\ board' = g.board
  /\ current_piece' = g.current_piece
  /\ game_over' = g.game_over
  /\ score' = g.score
  /\ merged' = g.merged
  /\ panicked' = g.panicked
  /\ last' = cmd
  /\ budget' = budget - (g.merged - merged)
  /\ UNCHANGED <<now, last_update>>

\* ------------------------------------------------------------- openings
\* The game is explored from the state after construction and from the states
\* a scripted opening leaves.  An opening is a sequence of placements, each
\* played with the commands of the game itself: the piece of shape `shape` is
\* rotated `turns` times (rotate_piece), moved towards column `col`
\* (move_piece) and hard-dropped (hard_drop).

\* the leftmost board column in which piece p has a block
LeftCol(p) ==
  p.x + CHOOSE j \in 0..(Len(p.blocks[1]) - 1) :
          /\ \E i \in 0..(Len(p.blocks) - 1) : p.blocks[i + 1][j + 1]
          /\ \A k \in 0..(j - 1) : \A i \in 0..(Len(p.blocks) - 1) : ~p.blocks[i + 1][k + 1]

RECURSIVE Turn(_, _)
Turn(g, turns) == IF turns = 0 THEN g ELSE Turn(RotatePiece(g), turns - 1)

RECURSIVE Steer(_, _)
Steer(g, col) ==
  IF LeftCol(g.current_piece) = col
  THEN g
  ELSE LET n == MovePiece(g, IF LeftCol(g.current_piece) > col THEN -1 ELSE 1)
       IN IF n = g THEN g ELSE Steer(n, col)

\* the outcome of hard_drop in which the spawn draws shape s (its only outcome
\* when it does not spawn)
HardDropTo(g, s) ==
  CHOOSE n \in HardDrop(g) :
    \/ n.current_piece.blocks = Shapes[s]
    \/ \A m \in HardDrop(g) : m.current_piece.blocks # Shapes[s]

\* the game after the placements k.. of opening o, the last spawn drawing s
RECURSIVE Replay(_, _, _, _)
Replay(g, o, k, s) ==
  IF k > Len(o)
  THEN g
  ELSE LET n == HardDropTo(Steer(Turn(g, o[k].turns), o[k].col),
                           IF k < Len(o) THEN o[k + 1].shape ELSE s)
       IN IF n.game_over \/ n.panicked THEN n ELSE Replay(n, o, k + 1, s)

P(shape, turns, col) == [shape |-> shape, turns |-> turns, col |-> col]

\* n vertical I pieces stacked in column col
RECURSIVE Tower(_, _)
Tower(col, n) == IF n = 0 THEN <<>> ELSE <<P(1, 1, col)>> \o Tower(col, n - 1)

\* a column one piece away from the top: four I pieces and an O on column 4
NearTop == Tower(4, 4) \o <<P(2, 0, 4)>>

\* rows 16..19 filled but for column 9: nine I pieces side by side
OneGap ==
  Tower(0, 1) \o Tower(1, 1) \o Tower(2, 1) \o Tower(3, 1) \o Tower(4, 1)
    \o Tower(5, 1) \o Tower(6, 1) \o Tower(7, 1) \o Tower(8, 1)

\* rows 16..19 filled but for columns 8 and 9: eight I pieces side by side
TwoGap ==
  Tower(0, 1) \o Tower(1, 1) \o Tower(2, 1) \o Tower(3, 1) \o Tower(4, 1)
    \o Tower(5, 1) \o Tower(6, 1) \o Tower(7, 1)

\* towers up to row 4 on columns 0, 2, 4 and 6, and up to row 2 on column 8
Towers ==
  Tower(0, 4) \o Tower(2, 4) \o Tower(6, 4) \o Tower(8, 3) \o Tower(4, 4)
    \o <<P(2, 0, 8), P(1, 1, 8)>>

\* rows 0 and 1 filled but for columns 4 and 5, resting on O pieces in rows 2-3
TopTwoRows ==
  Towers \o <<P(2, 0, 0), P(2, 0, 2), P(2, 0, 6), P(2, 0, 4)>>
         \o <<P(2, 0, 0), P(2, 0, 2), P(2, 0, 8), P(2, 0, 6)>>

\* row 0 filled but for columns 4 and 5, row 1 with gaps at columns 7 and 9
TopRow ==
  Towers \o <<P(3, 2, 7), P(1, 1, 6), P(2, 0, 4), P(2, 0, 0), P(2, 0, 2),
              P(2, 0, 0), P(2, 0, 2)>>

Openings == {<<>>, NearTop, OneGap, TwoGap, TopTwoRows, TopRow}

\* the game an opening leaves, the next piece being of shape s
Opened(o, s) ==
  IF Len(o) = 0 THEN NewGame(s) ELSE Replay(NewGame(o[1].shape), o, 1, s)

Init ==
  \E o \in Openings : \E s \in ShapeIds :
    LET g == Opened(o, s)
    IN /\ ~g.game_over /\ ~g.panicked
       /\ board = g.board
       /\ current_piece = g.current_piece
       /\ game_over = g.game_over
       /\ score = g.score
       /\ merged = g.merged
       /\ panicked = g.panicked
       /\ last = (IF Len(o) = 0 THEN "new" ELSE "space")
       /\ budget = MaxPieces
       /\ now = 0
       /\ last_update = 0

\* ------------------------------------------------ TetrisApp::update
\* A frame runs the gravity check, returns if game_over, and then
\* dispatches the pressed keys in the order Left, Right, Down, Up, Space.
\* A command runs in a frame of its own while the game is not over; once
\* game_over is set only the commands dispatched after the one that set it
\* in the same frame can still run: Up and Space after a Down.
Playing == ~game_over /\ ~panicked /\ budget > 0

Gravity ==
  /\ Playing
  /\ \E g \in Update(Game) : Becomes(g, "gravity")

KeyLeft ==
  /\ Playing
  /\ Becomes(MovePiece(Game, -1), "left")

KeyRight ==
  /\ Playing
  /\ Becomes(MovePiece(Game, 1), "right")

KeyDown ==
  /\ Playing
  /\ \E g \in Update(Game) : Becomes(g, "down")

KeyUp ==
  /\ Playing \/ (game_over /\ ~panicked /\ last = "down")
  /\ Becomes(RotatePiece(Game), "up")

KeySpace ==
  /\ Playing \/ (game_over /\ ~panicked /\ last \in {"down", "up"})
  /\ \E g \in HardDrop(Game) : Becomes(g, "space")

Next == Gravity \/ KeyLeft \/ KeyRight \/ KeyDown \/ KeyUp \/ KeySpace

Spec == Init /\ [][Next]_vars

\* -------------------------------------------------- clear_lines alone
\* clear_lines as a function of the board: it is applied once to each board
\* of a family in which row 0 is empty or half filled, rows 1, 2 and the
\* bottom MaxRows rows are each empty, full, half filled or full but for one
\* cell, and every other row is empty.
MaxRows == 3

FullRow == [c \in 1..BOARD_WIDTH |-> Filled]

HalfRow == [c \in 1..BOARD_WIDTH |-> IF c <= 5 THEN Filled ELSE Empty]

GapRow == [c \in 1..BOARD_WIDTH |-> IF c = BOARD_WIDTH THEN Empty ELSE Filled]

RowKinds == <<EmptyRow, FullRow, HalfRow, GapRow>>

\* the code's indices of the rows that vary over the family, row 0 apart
FreeRows == {1, 2} \cup ((BOARD_HEIGHT - MaxRows)..(BOARD_HEIGHT - 1))

InitClear ==
  \E top \in {EmptyRow, HalfRow} : \E f \in [FreeRows -> 1..Len(RowKinds)] :
    /\ board = [r \in 1..BOARD_HEIGHT |->
                  IF r = 1 THEN top
                  ELSE IF r - 1 \in FreeRows THEN RowKinds[f[r - 1]] ELSE EmptyRow]
    /\ current_piece = TetrominoNew(1)
    /\ game_over = FALSE
    /\ score = 0
    /\ merged = 0
    /\ panicked = FALSE
    /\ last = "merge_piece"
    /\ budget = 0
    /\ now = 0
    /\ last_update = 0

\* the call self.clear_lines() of update
ClearLinesCall ==
  /\ last = "merge_piece"
  /\ Becomes(ClearLines(Game), "clear_lines")

NextClear == ClearLinesCall

SpecClear == InitClear /\ [][NextClear]_vars

\* --------------------------------- can_move, is_valid_position, rotate
\* The predicates can_move and is_valid_position and Tetromino::rotate as
\* functions of their inputs: each is applied once to every input of a
\* family.  The piece is any catalog shape turned 0 to 3 times with its anchor
\* up to Margin cells outside the board on every side; the board is empty,
\* has its left half filled in every row, or has its bottom MaxRows rows
\* filled but for the last column.
Margin == 2

\* the offsets can_move is called with
Offsets == {-1, 0, 1}

PlaceBoards ==
  {EmptyBoard,
   [r \in 1..BOARD_HEIGHT |-> HalfRow],
   [r \in 1..BOARD_HEIGHT |-> IF r > BOARD_HEIGHT - MaxRows THEN GapRow ELSE EmptyRow]}

RECURSIVE Turned(_, _)
Turned(p, turns) == IF turns = 0 THEN p ELSE Turned(TetrominoRotate(p), turns - 1)

InitPlace ==
  \E b \in PlaceBoards : \E s \in ShapeIds : \E turns \in 0..3 :
    \E x \in (-Margin)..(BOARD_WIDTH - 1 + Margin) :
      \E y \in (-Margin)..(BOARD_HEIGHT - 1 + Margin) :
        /\ board = b
        /\ current_piece = [Turned(TetrominoNew(s), turns) EXCEPT !.x = x, !.y = y]
        /\ game_over = FALSE
        /\ score = 0
        /\ merged = 0
        /\ panicked = FALSE
        /\ last = "placed"
        /\ budget = 0
        /\ now = 0
        /\ last_update = 0

\* a call self.can_move(dx, dy); last records the value returned
CanMoveCall ==
  /\ last = "placed"
  /\ \E dx \in Offsets : \E dy \in Offsets :
       last' = (IF CanMove(Game, dx, dy) THEN "can_move: true" ELSE "can_move: false")
  /\ UNCHANGED <<board, current_piece, game_over, score, merged, panicked, budget,
               now, last_update>>

\* a call self.is_valid_position(&piece) with the current piece moved by
\* (dx, dy) as the candidate; last records the value returned
IsValidPositionCall ==
  /\ last = "placed"
  /\ \E dx \in Offsets : \E dy \in Offsets :
       last' = (IF IsValidPosition(Game, [current_piece EXCEPT !.x = @ + dx, !.y = @ + dy])
                THEN "is_valid_position: true" ELSE "is_valid_position: false")
  /\ UNCHANGED <<board, current_piece, game_over, score, merged, panicked, budget,
               now, last_update>>

\* a call current_piece.rotate()
RotateCall ==
  /\ last = "placed"
  /\ current_piece' = TetrominoRotate(current_piece)
  /\ last' = "rotate"
  /\ UNCHANGED <<board, game_over, score, merged, panicked, budget, now, last_update>>

NextPlace == CanMoveCall \/ IsValidPositionCall \/ RotateCall

SpecPlace == InitPlace /\ [][NextPlace]_vars

\* ------------------------------------------------------- gravity alone
\* A new game to which only the gravity tick of the frame is applied, until
\* MaxTickPieces pieces have been merged.
MaxTickPieces == 3

InitTicks ==
  \E s \in ShapeIds :
    LET g == NewGame(s)
    IN /\ board = g.board
       /\ current_piece = g.current_piece
       /\ game_over = g.game_over
       /\ score = g.score
       /\ merged = g.merged
       /\ panicked = g.panicked
       /\ last = "new"
       /\ budget = MaxTickPieces
       /\ now = 0
       /\ last_update = 0

NextTicks == Gravity

SpecTicks == InitTicks /\ [][NextTicks]_vars

\* ------------------------------------------- gravity alone, to the end
\* Gravity alone, followed to the end of the game.  The game is explored
\* from a new game for MaxTickPieces pieces, and without a limit from the
\* piles that ticks alone build out of pieces of one shape, once the pile
\* has reached row MaxFree.  The frame runs the tick whenever 500 ms have
\* passed and asks for the next frame itself (request_repaint), so a tick that
\* stays due is run: weak fairness.
MaxFree == 3

\* the code's index of the highest row of b with a Filled cell, BOARD_HEIGHT
\* when there is none
TopOfStack(b) ==
  LET used == {y \in 0..(Len(b) - 1) : \E c \in 1..Len(b[y + 1]) : b[y + 1][c] = Filled}
  IN IF used = {} THEN Len(b) ELSE CHOOSE y \in used : \A z \in used : y <= z

\* update called until it has merged the piece, the spawn drawing shape s
\* (fuel bounds the number of calls)
RECURSIVE TickToMerge(_, _, _)
TickToMerge(g, s, fuel) ==
  IF g.game_over \/ g.panicked \/ fuel = 0
  THEN g
  ELSE IF CanMove(g, 0, 1)
       THEN LET n == CHOOSE n \in Update(g) : TRUE
            IN IF n.merged > g.merged THEN n ELSE TickToMerge(n, s, fuel - 1)
       ELSE CHOOSE n \in Update(g) :
              \/ n.current_piece.blocks = Shapes[s]
              \/ \A m \in Update(g) : m.current_piece.blocks # Shapes[s]

\* pieces of shape s piled up by ticks alone until the pile reaches row
\* MaxFree (fuel bounds the number of pieces)
RECURSIVE PileUp(_, _, _)
PileUp(g, s, fuel) ==
  IF g.game_over \/ g.panicked \/ fuel = 0 \/ TopOfStack(g.board) <= MaxFree
  THEN g
  ELSE PileUp(TickToMerge(g, s, BOARD_HEIGHT + 1), s, fuel - 1)

InitFall ==
  \E s \in ShapeIds : \E piled \in BOOLEAN :
    LET g == IF piled THEN PileUp(NewGame(s), s, BOARD_HEIGHT) ELSE NewGame(s)
    IN /\ ~g.game_over /\ ~g.panicked
       /\ board = g.board
       /\ current_piece = g.current_piece
       /\ game_over = g.game_over
       /\ score = g.score
       /\ merged = g.merged
       /\ panicked = g.panicked
       /\ last = (IF piled THEN "gravity" ELSE "new")
       /\ budget = MaxTickPieces
       /\ now = 0
       /\ last_update = 0

\* the gravity tick of the frame
FallTick ==
  /\ ~game_over /\ ~panicked
  /\ merged < MaxTickPieces \/ TopOfStack(board) <= MaxFree
  /\ \E g \in Update(Game) : Becomes(g, "gravity")

NextFall == FallTick

SpecFall == InitFall /\ [][NextFall]_vars /\ WF_vars(FallTick)

\* ------------------------------------------------- the frame, with time
\* TetrisApp::update as a whole: a frame arrives some time after the one
\* before, runs the gravity tick if it is due, returns if the game is over
\* (after a click on Restart, with a new game) and otherwise runs the
\* commands of the keys pressed, in the order of the code.  MaxFrames frames
\* are run, each with at most MaxKeys keys pressed, from a new game and from
\* the game the opening NearTop leaves.
MaxFrames == 2

MaxKeys == 1

\* the times between two frames, in milliseconds
FrameGaps == {100, 400, 500, 1200}

\* the keys in the order in which the frame asks for them
KeyOrder == <<"left", "right", "down", "up", "space">>

KeySets == {ks \in SUBSET {KeyOrder[i] : i \in 1..Len(KeyOrder)} : Cardinality(ks) <= MaxKeys}

\* a mutant of GravityStep: one update for every TICK_DURATION that has passed
RECURSIVE GravityCatchUp(_, _, _)
GravityCatchUp(g, lu, t) ==
  IF ~g.game_over /\ t - lu >= TICK_DURATION
  THEN UNION {GravityCatchUp(n, lu + TICK_DURATION, t) : n \in Update(g)}
  ELSE {g}

\* lines 245-246: the games the gravity check of a frame at time t leaves,
\* last_update being lu
GravityStep(g, lu, t) ==
  IF ~g.game_over /\ t - lu >= TICK_DURATION THEN Update(g) ELSE {g}

\* the command of key k run on every game of G
ApplyKey(G, k) ==
  CASE k = "left" -> {MovePiece(g, -1) : g \in G}
    [] k = "right" -> {MovePiece(g, 1) : g \in G}
    [] k = "down" -> UNION {Update(g) : g \in G}
    [] k = "up" -> {RotatePiece(g) : g \in G}
    [] k = "space" -> UNION {HardDrop(g) : g \in G}

\* lines 263-277: the commands of the keys ks, from the i-th key of KeyOrder on
RECURSIVE RunKeys(_, _, _)
RunKeys(G, ks, i) ==
  IF i > Len(KeyOrder)
  THEN G
  ELSE RunKeys(IF KeyOrder[i] \in ks THEN ApplyKey(G, KeyOrder[i]) ELSE G, ks, i + 1)

\* the keys of ks in the order of KeyOrder
Pressed(ks) == SelectSeq(KeyOrder, LAMBDA k : k \in ks)

\* the frame leaves the game as g, having run the commands cmds, and
\* last_update as lu
FrameEnds(g, cmds, lu, t) ==
  /\ board' = g.board
  /\ current_piece' = g.current_piece
  /\ game_over' = g.game_over
  /\ score' = g.score
  /\ merged' = g.merged
  /\ panicked' = g.panicked
  /\ last' = cmds
  /\ last_update' = lu
  /\ now' = t
  /\ budget' = budget - 1

InitFrame ==
  \E o \in {<<>>, NearTop} : \E s \in ShapeIds :
    LET g == Opened(o, s)
    IN /\ ~g.game_over /\ ~g.panicked
       /\ board = g.board
       /\ current_piece = g.current_piece
       /\ game_over = g.game_over
       /\ score = g.score
       /\ merged = g.merged
       /\ panicked = g.panicked
       /\ last = <<>>
       /\ budget = MaxFrames
       /\ now = 0
       /\ last_update = 0

\* TetrisApp::update
Frame ==
  /\ budget > 0
  /\ \E gap \in FrameGaps : \E ks \in KeySets : \E click \in BOOLEAN :
       LET t == now + gap
           due == ~game_over /\ t - last_update >= TICK_DURATION
           ticked == IF due THEN <<"gravity">> ELSE <<>>
           lu == IF due THEN t ELSE last_update
       IN \E g1 \in GravityStep(Game, last_update, t) :
            IF g1.game_over
            THEN IF click
                 THEN \E s \in ShapeIds :
                        FrameEnds(NewGame(s), ticked \o <<"restart">>, t, t)
                 ELSE FrameEnds(g1, ticked, lu, t)
            ELSE \E g2 \in RunKeys({g1}, ks, 1) :
                   FrameEnds(g2, ticked \o Pressed(ks), lu, t)

NextFrame == Frame

SpecFrame == InitFrame /\ [][NextFrame]_vars

\* ================================================================ claims
\* The claims about one command are stated of every reachable state: the
\* command's outcome there (Update, RotatePiece and HardDrop are what the
\* actions run) is what the claim says.

\* the code's indices of the rows of b that are entirely Filled
FullRows(b) == {y \in 0..(Len(b) - 1) : RowFull(Row(b, y))}

\* the current piece's rotated mask at anchor x + d
RotatedAt(d) ==
  [TetrominoRotate(current_piece) EXCEPT !.x = current_piece.x + d]

\* C1: once the terminal flag is true every command the application runs is a
\* no-op: the board, the piece (mask and anchor), the score and the flag
\* are unchanged by every step taken from a terminal state.
C1_TerminalNoOp ==
  [][game_over => UNCHANGED <<board, current_piece, score, game_over>>]_vars

\* C2: the flag is false in a new game; it turns true only in a tick (timer,
\* soft drop or the tick of a hard drop) that has merged the piece and
\* spawned one whose spawn position fails can_move(0, 0); once true it
\* stays true.
C2_TerminalFlag ==
  /\ [](last = "new" => ~game_over)
  /\ [][(~game_over /\ game_over') =>
          /\ last' \in {"gravity", "down", "space"}
          /\ merged' = merged + 1
          /\ \E s \in ShapeIds : current_piece' = TetrominoNew(s)
          /\ ~CanMove(GameNext, 0, 0)]_vars
  /\ [][game_over => game_over']_vars

\* C2 witness: a command has run after the flag was set, and the flag is set
C2_Witness == game_over /\ last = "up" /\ merged > 0

\* C3: rotate tries the offsets 0, -1, +1 in that order: a rotated mask valid
\* at the current x is installed at x; x - 1 is chosen only when offset 0 is
\* invalid; x + 1 only when offsets 0 and -1 are both invalid.
C3_RotateOrder ==
  [][last' = "up" =>
       /\ IsValidPosition(Game, RotatedAt(0)) => current_piece' = RotatedAt(0)
       /\ (current_piece' = RotatedAt(-1) /\ current_piece' # current_piece)
            => ~IsValidPosition(Game, RotatedAt(0))
       /\ (current_piece' = RotatedAt(1) /\ current_piece' # current_piece)
            => (~IsValidPosition(Game, RotatedAt(0))
                /\ ~IsValidPosition(Game, RotatedAt(-1)))]_vars

\* the board merge_piece leaves when update merges in the current state
MergedBoard == MergePiece(Game).board

\* the step of update or hard_drop that merges the piece
MergeStep == merged' = merged + 1

\* C4 as claimed: a row 0 that is full when clear_lines is called is not
\* removed by the call, whichever other rows are full: a full row is still
\* on the board and the score counts only the other full rows.
C4_Row0NeverCleared ==
  [][(MergeStep /\ 0 \in FullRows(MergedBoard)) =>
       /\ FullRows(board') # {}
       /\ score' = score + LINE_SCORE * Cardinality(FullRows(MergedBoard) \ {0})]_vars

\* C4 as amended: a row 0 that is full when clear_lines is called is not
\* removed by the call when no other row is full (the board is as merged and
\* the score is unchanged); when some other row is full as well, the row
\* from index 0 moves down, is examined, removed and counted like the others.
C4_Row0KeptWhenAlone ==
  (~game_over /\ ~panicked /\ ~CanMove(Game, 0, 1) /\ 0 \in FullRows(MergedBoard)) =>
    \A n \in Update(Game) :
      IF FullRows(MergedBoard) = {0}
      THEN n.board = MergedBoard /\ n.score = score
      ELSE /\ FullRows(n.board) = {}
           /\ n.score = score + LINE_SCORE * Cardinality(FullRows(MergedBoard))

\* C4 witness: a merge has completed row 0 alone and the row is still there
C4_Witness == RowFull(Row(board, 0)) /\ FullRows(board) = {0} /\ last = "down"

\* C5: no board index is ever out of range (merge_piece, the only unguarded
\* access, never panics, also for commands run after the flag is set) and
\* the board is always 20 rows of 10 cells, each Empty or Filled.
C5_NoPanic ==
  /\ ~panicked
  /\ ~MergeOutOfRange(Game) \/ game_over
  /\ Len(board) = BOARD_HEIGHT
  /\ \A r \in 1..BOARD_HEIGHT :
       Len(board[r]) = BOARD_WIDTH /\ \A c \in 1..BOARD_WIDTH : board[r][c] \in BlockType

\* C5 witness: a hard drop ran after the flag was set and moved the piece down
C5_Witness ==
  /\ ~panicked /\ game_over /\ last = "space" /\ current_piece.y > 0

\* the spawn position of the claim: y = 0, x = 4 for O and 3 otherwise
SpawnOf(s) ==
  [blocks |-> Shapes[s], x |-> IF Len(Shapes[s][1]) = 2 THEN 4 ELSE 3, y |-> 0]

\* the current board with Filled written into the cells the piece covers:
\* cell (x, y) is covered when the mask has a block at (y - piece.y, x - piece.x)
Covered ==
  [r \in 1..BOARD_HEIGHT |-> [c \in 1..BOARD_WIDTH |->
     IF IsBlock(current_piece, (r - 1) - current_piece.y, (c - 1) - current_piece.x)
     THEN Filled ELSE board[r][c]]]

\* C6: a tick in a non-terminal state whose piece cannot move down writes the
\* piece into the board, clears the completed lines, makes one of the 7
\* catalog shapes current at its spawn position and sets the flag iff
\* that piece fails can_move(0, 0).
C6_MergeTick ==
  (~game_over /\ ~panicked /\ ~CanMove(Game, 0, 1)) =>
    LET cleared == ClearLines([Game EXCEPT !.board = Covered])
    IN \A n \in Update(Game) :
         /\ n.board = cleared.board
         /\ n.score = cleared.score
         /\ \E s \in ShapeIds : n.current_piece = SpawnOf(s)
         /\ n.game_over = ~CanMove(n, 0, 0)

\* C6 witness: a tick has merged a piece, cleared lines and spawned
C6_Witness ==
  /\ last \in {"gravity", "down"} /\ score > 0 /\ current_piece.y = 0
  /\ merged > 0 /\ ~game_over

\* the rows of b that are not full, in order, under as many empty rows as b
\* has full rows
Compacted(b) ==
  LET kept == SelectSeq(b, LAMBDA row : ~RowFull(row))
      k == Len(b) - Len(kept)
  IN [r \in 1..Len(b) |-> IF r <= k THEN EmptyRow ELSE kept[r - k]]

\* C7: on a board whose row 0 is not full, clear_lines leaves the rows that
\* are not full, in order, at the bottom under k empty rows, k the number of
\* full rows, and adds 100 * k to the score; with k = 0 nothing changes, and
\* with only row 19 full the board becomes all Empty and the score rises by 100.
C7_ClearLines ==
  [][(last' = "clear_lines" /\ 0 \notin FullRows(board)) =>
       /\ board' = Compacted(board)
       /\ score' = score + LINE_SCORE * Cardinality(FullRows(board))
       /\ FullRows(board) = {} => (board' = board /\ score' = score)
       /\ board = [EmptyBoard EXCEPT ![BOARD_HEIGHT] = FullRow]
            => (board' = EmptyBoard /\ score' = score + 100)]_vars

\* C7 witness: clear_lines has removed two rows and kept a half filled one
C7_Witness ==
  /\ last = "clear_lines" /\ score = 200
  /\ Row(board, BOARD_HEIGHT - 1) = HalfRow /\ Row(board, 0) = EmptyRow

\* the code's index of the lowest mask row of the piece that has a block
BottomRow(p) ==
  CHOOSE i \in 0..(Len(p.blocks) - 1) :
    /\ \E j \in 0..(Len(p.blocks[1]) - 1) : IsBlock(p, i, j)
    /\ \A k \in (i + 1)..(Len(p.blocks) - 1) :
         \A j \in 0..(Len(p.blocks[1]) - 1) : ~IsBlock(p, k, j)

\* C8: hard_drop in a non-terminal state moves the piece straight down as far
\* as consecutive valid one-row steps reach, merges it there in the same
\* call, clears lines and spawns at y = 0; on the empty board the piece's
\* lowest occupied row ends up Filled in board row 19.
C8_HardDrop ==
  (~game_over /\ ~panicked) =>
    \E n \in 0..BOARD_HEIGHT :
      LET landed == [Game EXCEPT !.current_piece.y = @ + n]
          settled == ClearLines(MergePiece(landed)).board
      IN /\ ~CanMove(Game, 0, n + 1)
         /\ \A k \in 1..n : CanMove(Game, 0, k)
         /\ \A g \in HardDrop(Game) :
              /\ g.merged = merged + 1
              /\ g.board = settled
              /\ g.current_piece.y = 0
         /\ board = EmptyBoard =>
              /\ current_piece.y + n + BottomRow(current_piece) = BOARD_HEIGHT - 1
              /\ \A c \in 0..(BOARD_WIDTH - 1) :
                   Cell(settled, c, BOARD_HEIGHT - 1) = Filled
                     <=> IsBlock(current_piece, BottomRow(current_piece),
                                 c - current_piece.x)

\* C8 witness: a vertical I was hard-dropped onto the empty board in column 9
C8_Witness ==
  /\ last = "space" /\ merged = 1
  /\ \A y \in 16..19 : Cell(board, 9, y) = Filled
  /\ Cell(board, 9, 15) = Empty

\* C9: rotate either installs the rotated mask at an anchor x - 1, x or x + 1
\* where it passes is_valid_position, or, when it is invalid at all three,
\* leaves the piece as it was; y, the board, the score and the flag are
\* unchanged either way.
C9_RotateOrReject ==
  LET g == RotatePiece(Game)
  IN /\ g.board = board /\ g.score = score /\ g.game_over = game_over
     /\ g.current_piece.y = current_piece.y
     /\ \/ \E d \in {-1, 0, 1} :
             g.current_piece = RotatedAt(d) /\ IsValidPosition(Game, RotatedAt(d))
        \/ /\ \A d \in {-1, 0, 1} : ~IsValidPosition(Game, RotatedAt(d))
           /\ g.current_piece = current_piece

\* C9 witness: a rotation was rejected: a vertical I in column 9 (its mask's
\* second column, anchor x = 8) has no valid rotation and can only be the
\* piece a rejected rotate left
C9_Witness ==
  /\ last = "up" /\ ~game_over
  /\ current_piece.blocks = <<<<FALSE, TRUE>>, <<FALSE, TRUE>>, <<FALSE, TRUE>>, <<FALSE, TRUE>>>>
  /\ current_piece.x = 8

\* C10: a tick in a non-terminal state whose piece can move down one row adds
\* 1 to y and changes nothing else: no merge, no line clear, no spawn.
C10_TickMovesDown ==
  (~game_over /\ ~panicked /\ CanMove(Game, 0, 1)) =>
    Update(Game) = {[Game EXCEPT !.current_piece.y = @ + 1]}

\* C10 witness: five ticks have moved the first piece down to y = 5
C10_Witness == last = "gravity" /\ current_piece.y = 5 /\ merged = 0

\* the board cells the occupied cells of piece p cover after a translation by
\* (dx, dy), as pairs <<x, y>>
OccupiedCells(p, dx, dy) ==
  {<<p.x + dx + j, p.y + dy + i>> :
     <<i, j>> \in {ij \in (0..(Len(p.blocks) - 1)) \X (0..(Len(p.blocks[1]) - 1)) :
                    p.blocks[ij[1] + 1][ij[2] + 1]}}

\* canPlace of the specification: every occupied cell, translated, has
\* 0 <= x < 10 and y < 20 and, when y >= 0, lies on an Empty board cell
CanPlace(b, p, dx, dy) ==
  \A c \in OccupiedCells(p, dx, dy) :
    /\ 0 <= c[1] /\ c[1] < BOARD_WIDTH /\ c[2] < BOARD_HEIGHT
    /\ c[2] >= 0 => Cell(b, c[1], c[2]) = Empty

\* C11: in every reachable state, move_piece(dx) with dx = -1 or +1 adds dx
\* to the anchor x when canPlace(board, piece, dx, 0) holds and changes
\* nothing otherwise; the board, the mask, y, the score and the flag are the
\* same in both cases.
C11_MoveHorizontal ==
  \A dx \in {-1, 1} :
    LET g == MovePiece(Game, dx)
    IN /\ g.current_piece.x =
            (IF CanPlace(board, current_piece, dx, 0)
             THEN current_piece.x + dx ELSE current_piece.x)
       /\ g.board = board /\ g.score = score /\ g.game_over = game_over
       /\ g.current_piece.blocks = current_piece.blocks
       /\ g.current_piece.y = current_piece.y

\* C11 witness: a move to the right has run with the piece against the wall,
\* where canPlace(board, piece, 1, 0) is false: a rotated T in columns 8-9
C11_Witness ==
  /\ last = "right" /\ ~CanMove(Game, 1, 0)
  /\ current_piece.blocks = <<<<TRUE, FALSE>>, <<TRUE, TRUE>>, <<TRUE, FALSE>>>>
  /\ current_piece.x = 8 /\ current_piece.y = 3

\* C12: for every board, piece and offset (dx, dy) of the family, can_move(dx,
\* dy) is true exactly when canPlace holds (every occupied cell, translated,
\* has 0 <= x < 10, y < 20 and, when y >= 0, lies on an Empty cell); it is
\* false when an occupied cell has x < 0, x >= 10 or y >= 20;
\* is_valid_position of the translated piece gives the same answer (so it
\* agrees with can_move(0, 0) on the same piece); and neither call changes
\* the game.
C12_CanPlace ==
  /\ [](\A dx \in Offsets : \A dy \in Offsets :
          /\ CanMove(Game, dx, dy) = CanPlace(board, current_piece, dx, dy)
          /\ (\E c \in OccupiedCells(current_piece, dx, dy) :
                 c[1] < 0 \/ c[1] >= BOARD_WIDTH \/ c[2] >= BOARD_HEIGHT)
               => ~CanMove(Game, dx, dy)
          /\ IsValidPosition(Game, [current_piece EXCEPT !.x = @ + dx, !.y = @ + dy])
               = CanMove(Game, dx, dy))
  /\ [](IsValidPosition(Game, current_piece) = CanMove(Game, 0, 0))
  /\ [][last' \in {"can_move: true", "can_move: false",
                   "is_valid_position: true", "is_valid_position: false"}
          => UNCHANGED <<board, current_piece, game_over, score>>]_vars

\* C12 witness: can_move has returned true for the flat I in row 19, whose
\* second mask row, all unoccupied, is below the board
C12_Witness ==
  /\ last = "can_move: true"
  /\ current_piece = [TetrominoNew(1) EXCEPT !.y = BOARD_HEIGHT - 1]
  /\ board = EmptyBoard

\* the number of blocks of a mask
BlockCount(blocks) ==
  Cardinality({ij \in (1..Len(blocks)) \X (1..Len(blocks[1])) : blocks[ij[1]][ij[2]]})

\* C14: rotate turns an R x C mask into the C x R mask with
\* result[j][R - 1 - i] = source[i][j], leaves the anchor (x, y) as it was and
\* keeps the number of blocks; four rotations of a catalog shape (in any of
\* its orientations) give back the same mask.
C14_Rotate ==
  /\ [][last' = "rotate" =>
          LET R == Len(current_piece.blocks)
              C == Len(current_piece.blocks[1])
          IN /\ Len(current_piece'.blocks) = C
             /\ \A j \in 1..C : Len(current_piece'.blocks[j]) = R
             /\ \A i \in 0..(R - 1) : \A j \in 0..(C - 1) :
                  current_piece'.blocks[j + 1][(R - 1 - i) + 1]
                    = current_piece.blocks[i + 1][j + 1]
             /\ current_piece'.x = current_piece.x
             /\ current_piece'.y = current_piece.y
             /\ BlockCount(current_piece'.blocks) = BlockCount(current_piece.blocks)]_vars
  /\ [](Turned(current_piece, 4) = current_piece)
  /\ [](\A s \in ShapeIds : Turned(TetrominoNew(s), 4).blocks = Shapes[s])

\* C14 witness: rotate has turned the flat I (2 x 4, second row unoccupied) at
\* its spawn position into the 4 x 2 mask with the blocks in the second column
C14_Witness ==
  /\ last = "rotate"
  /\ current_piece.blocks = <<<<FALSE, TRUE>>, <<FALSE, TRUE>>, <<FALSE, TRUE>>, <<FALSE, TRUE>>>>
  /\ current_piece.x = 3 /\ current_piece.y = 0

\* the games that n calls of update can leave, starting from the games of G
RECURSIVE TickTimes(_, _)
TickTimes(G, n) ==
  IF n = 0 THEN G ELSE TickTimes(UNION {Update(g) : g \in G}, n - 1)

\* the board with nothing but an O piece merged in rows 18-19, columns 4-5
BoardWithO ==
  [r \in 1..BOARD_HEIGHT |-> [c \in 1..BOARD_WIDTH |->
     IF r - 1 \in {18, 19} /\ c - 1 \in {4, 5} THEN Filled ELSE Empty]]

\* C13: a new game whose piece is O has it at (4, 0); k ticks, k = 0..18,
\* leave that piece at y = k and nothing else changed; the 19th tick leaves
\* the O merged in rows 18-19, columns 4-5, a new piece at y = 0 and the flag
\* false.  Under ticks alone every tick on a piece that can descend moves it
\* down exactly one row, and the first tick on a piece that cannot descend
\* merges it where it is.
C13_TicksAlone ==
  /\ [](current_piece = TetrominoNew(2) /\ merged = 0 =>
          /\ current_piece.x = 4 /\ current_piece.y = 0
          /\ \A k \in 0..18 :
               TickTimes({Game}, k) = {[Game EXCEPT !.current_piece.y = k]}
          /\ \A n \in TickTimes({Game}, 19) :
               /\ n.board = BoardWithO
               /\ n.current_piece.y = 0
               /\ n.merged = 1
               /\ ~n.game_over
          /\ {n.current_piece : n \in TickTimes({Game}, 19)}
               = {TetrominoNew(s) : s \in ShapeIds})
  /\ [][last' = "gravity" =>
          IF CanMove(Game, 0, 1)
          THEN GameNext = [Game EXCEPT !.current_piece.y = @ + 1]
          ELSE /\ merged' = merged + 1
               /\ board' = Covered
               /\ current_piece'.y = 0]_vars

\* C13 witness: ticks alone have merged the O of a new game in rows 18-19 and
\* a new piece is current at y = 0, the game not over
C13_Witness ==
  /\ last = "gravity" /\ merged = 1 /\ board = BoardWithO
  /\ current_piece.y = 0 /\ ~game_over

\* the number of Filled cells of the rows k.. of board b
RECURSIVE FilledFrom(_, _)
FilledFrom(b, k) ==
  IF k > Len(b)
  THEN 0
  ELSE Cardinality({c \in 1..Len(b[k]) : b[k][c] = Filled}) + FilledFrom(b, k + 1)

\* the number of Filled cells of board b
FilledCount(b) == FilledFrom(b, 1)

\* C16: in every reachable state whose flag is false every block of the
\* current piece is in columns 0..9 and rows 0..19 on an Empty cell, so that
\* merge_piece, run there, writes only cells of the board that were Empty.
C16_PieceValid ==
  ~game_over =>
    /\ \A c \in OccupiedCells(current_piece, 0, 0) :
         /\ 0 <= c[1] /\ c[1] < BOARD_WIDTH
         /\ 0 <= c[2] /\ c[2] < BOARD_HEIGHT
         /\ Cell(board, c[1], c[2]) = Empty
    /\ ~MergeOutOfRange(Game)
    /\ \A c \in OccupiedCells(current_piece, 0, 0) :
         Cell(MergedBoard, c[1], c[2]) = Filled
    /\ FilledCount(MergedBoard) = FilledCount(board) + 4

\* C16 witness: a piece steered by a move or a rotation rests on the stack of
\* a board that is not empty, the game not over
C16_Witness ==
  /\ ~game_over /\ last \in {"left", "right", "up"}
  /\ board # EmptyBoard /\ ~CanMove(Game, 0, 1)
  /\ current_piece.y > 0 /\ current_piece.y + Len(current_piece.blocks) < BOARD_HEIGHT

\* C17: in every reachable state no row 1..19 is entirely Filled, and row 0 is
\* entirely Filled only when the flag is set: a state whose flag is false has
\* no complete row.
C17_NoFullRow ==
  /\ \A y \in 1..(BOARD_HEIGHT - 1) : ~RowFull(Row(board, y))
  /\ RowFull(Row(board, 0)) => game_over
  /\ ~game_over => FullRows(board) = {}

\* C17 witness: a merge has completed row 0 alone, the spawn that followed
\* has set the flag, and a command has run since
C17_Witness == game_over /\ 0 \in FullRows(board) /\ last = "up"

\* C18: in every reachable state the anchor y is not negative (no block has
\* a negative board row), the number of Filled cells is 4 times the number
\* of pieces merged less 10 per 100 points of score, and merge_piece, run
\* where update runs it, adds exactly 4 Filled cells.
C18_FilledCells ==
  /\ current_piece.y >= 0
  /\ \A c \in OccupiedCells(current_piece, 0, 0) : c[2] >= 0
  /\ FilledCount(board) = 4 * merged - 10 * (score \div 100)
  /\ (~game_over /\ ~CanMove(Game, 0, 1)) =>
       FilledCount(MergedBoard) = FilledCount(board) + 4

\* C18 witness: nine pieces merged, the last of them completing two rows:
\* 36 cells written, 20 removed
C18_Witness == merged = 9 /\ score = 200 /\ FilledCount(board) = 16

\* what a command's outcomes n make of the board, the score and the count of
\* merged pieces
Effects(outs) ==
  {[board |-> n.board, score |-> n.score, merged |-> n.merged] : n \in outs}

\* C19: the score is 0 in a new game and always a multiple of 100; in every
\* reachable state move_piece and rotate_piece leave it as it is, and update
\* and hard_drop change it only when they merge a piece, raising it by 100
\* times the number of rows removed (10 cells each), which is 0, 1, 2, 3 or 4.
C19_Score ==
  /\ last = "new" => score = 0
  /\ score % LINE_SCORE = 0
  /\ score >= 0
  /\ \A dx \in {-1, 1} : MovePiece(Game, dx).score = score
  /\ RotatePiece(Game).score = score
  /\ \A e \in Effects(Update(Game) \cup HardDrop(Game)) :
       LET removed == FilledCount(board) + 4 * (e.merged - merged) - FilledCount(e.board)
       IN /\ e.merged \in {merged, merged + 1}
          /\ e.merged = merged => e.score = score /\ e.board = board
          /\ removed \in {0, 10, 20, 30, 40}
          /\ e.score = score + LINE_SCORE * (removed \div 10)

\* C19 witness: a hard drop has completed four rows at once: 400 points
C19_Witness == last = "space" /\ score = 400 /\ merged = 10 /\ board = EmptyBoard

\* the columns spawned pieces occupy
SpawnColumns == 3..6

RECURSIVE RunCommands(_, _)
RunCommands(G, cmds) ==
  IF Len(cmds) = 0 THEN G ELSE RunCommands(ApplyKey(G, Head(cmds)), Tail(cmds))

\* C15: a frame that finds the game not over and at least TICK_DURATION
\* elapsed since last_update runs the gravity tick exactly once, however long
\* the time elapsed, before any key command, and sets last_update to the
\* time of the frame; a frame that finds less elapsed (or the game over) runs
\* no gravity tick; and last_update is written by nothing else short of a
\* restart: not by a soft drop, nor by any other key command.
C15_GravityTimer ==
  [][LET due == ~game_over /\ now' - last_update >= TICK_DURATION
         gravities == {i \in 1..Len(last') : last'[i] = "gravity"}
         restarted == \E i \in 1..Len(last') : last'[i] = "restart"
         keys == SelectSeq(last', LAMBDA c : c \notin {"gravity", "restart"})
     IN /\ now' > now
        /\ gravities = (IF due THEN {1} ELSE {})
        /\ due => last_update' = now'
        /\ (~due /\ ~restarted) => last_update' = last_update
        /\ restarted => (game_over \/ due) /\ Len(keys) = 0
        /\ ~restarted =>
             \E g1 \in (IF due THEN Update(Game) ELSE {Game}) :
               GameNext \in RunCommands({g1}, keys)]_vars

\* C15 witness: two frames, 500 ms in all; the first ran a soft drop and
\* nothing else, the second the gravity tick and nothing else: the piece is
\* two rows down and last_update is the time of the second frame
C15_Witness ==
  /\ budget = 0 /\ now = 500 /\ last_update = 500
  /\ last = <<"gravity">>
  /\ current_piece.y = 2 /\ merged = 0
====
